---------------------------- MODULE Spec2Model ----------------------------
(***************************************************************************)
(* mpris-notifier: the signal decoder, the format engine, the notification *)
(* composer and the coalescing engine (SignalHandler), with the event loop *)
(* that drives them.                                                       *)
(*                                                                         *)
(* Strings that the program inspects character by character (templates,    *)
(* metadata text) are sequences of one-character strings.  Option<T> is a  *)
(* sequence of length at most one: None == << >>, Some(x) == << x >>.      *)
(* Time is in milliseconds.                                                *)
(***************************************************************************)
EXTENDS Integers, Sequences, FiniteSets, TLC

VARIABLES
    configuration,          \* SignalHandler.configuration
    metadata,               \* SignalHandler.metadata: sender -> Option<PlayerMetadata>
    pending_notification,   \* SignalHandler.pending_notification: Option<Notification>
    pending_commands,       \* SignalHandler.pending_commands: Vec<Command>
    now,                    \* the monotonic clock read by Instant::now()
    flushed,                \* the notifications handed to send_notification, each with the Notify call made (if any), as the scripted environments record them
    last,                   \* the most recent handler call: which one, what it returned, what it handed to the notifier, which commands it ran, whose notification was pending when it began
    seen,                   \* per sender: metadata of the latest decoded change that carried metadata
    step,                   \* number of signals handled so far (counted by the scripted environments)
    sig_at,                 \* the clock when the latest signal was handed to handle_signal
    pc,                     \* App::event_loop: the statement the loop is at
    inbox,                  \* messages that reached the socket and were not yet received
    signal                  \* App::event_loop: the message next_signal returned

vars == <<configuration, metadata, pending_notification, pending_commands, now,
          flushed, last, seen, step, sig_at, pc, inbox, signal>>

engine == <<metadata, pending_notification, pending_commands>>

-----------------------------------------------------------------------------
(* Option<T> *)

None == << >>

Some(x) == << x >>

IsSome(o) == o # << >>

Unwrap(o) == o[1]

-----------------------------------------------------------------------------
(* Bounds of the model *)

\* The clock stops advancing here.
MaxTime == 750

\* Most messages waiting on the socket at once.
MaxInbox == 1

\* Messages the bus delivers in a run of the event loop
MaxDelivered == 3

\* Pieces a template is put together from
MaxPieces == 2

\* Signals handled in a scenario in which the engine is polled for ever
MaxSignals == 1

\* Signals handled in a scenario of changes that carry nothing
MaxHandled == 3

-----------------------------------------------------------------------------
(* Program constants *)

NOTIFICATION_DELAY == 250

LOOP_DELAY == 50

NOTIFICATION_NAMESPACE == "org.freedesktop.Notifications"

NOTIFICATION_OBJECTPATH == "/org/freedesktop/Notifications"

NOTIFICATION_SOURCE == "mpris-notifier"

MPRIS_INTERFACE == "org.mpris.MediaPlayer2.Player"

-----------------------------------------------------------------------------
(* Text *)

\* "abc" as the program sees it: one character per element.
Playing == <<"P","l","a","y","i","n","g">>

Paused == <<"P","a","u","s","e","d">>

Stopped == <<"S","t","o","p","p","e","d">>

is_whitespace(c) == c \in {" ", "\t", "\n"}

RECURSIVE trim_start(_)
trim_start(s) ==
    IF s = << >> THEN << >>
    ELSE IF is_whitespace(Head(s)) THEN trim_start(Tail(s))
    ELSE s

RECURSIVE trim_end(_)
trim_end(s) ==
    IF s = << >> THEN << >>
    ELSE IF is_whitespace(s[Len(s)]) THEN trim_end(SubSeq(s, 1, Len(s) - 1))
    ELSE s

\* str::trim
trim(s) == trim_end(trim_start(s))

Digit(d) == <<"0","1","2","3","4","5","6","7","8","9">>[d + 1]

\* u32::to_string
RECURSIVE to_string(_)
to_string(n) ==
    IF n < 10 THEN <<Digit(n)>>
    ELSE to_string(n \div 10) \o <<Digit(n % 10)>>

\* [String]::join
RECURSIVE join(_, _)
join(entries, sep) ==
    IF entries = << >> THEN << >>
    ELSE IF Len(entries) = 1 THEN entries[1]
    ELSE entries[1] \o sep \o join(Tail(entries), sep)

-----------------------------------------------------------------------------
(* formatter.rs *)

unwrap_str_field(field) == IF IsSome(field) THEN Unwrap(field) ELSE << >>

\* A list field rendered by its first entry alone
unwrap_vec_field_first(field, join_str) ==
    IF IsSome(field) /\ Unwrap(field) # << >> THEN Unwrap(field)[1] ELSE << >>

unwrap_vec_field(field, join_str) ==
    IF IsSome(field) THEN join(Unwrap(field), join_str) ELSE << >>

unwrap_or(o, default) == IF IsSome(o) THEN Unwrap(o) ELSE default

\* Replacer::replace_append: the text appended for one matched token.
replace_append(cap, md, join_str) ==
    CASE cap = <<"{","a","l","b","u","m","}">> -> unwrap_str_field(md.album)
      [] cap = <<"{","a","l","b","u","m","_","a","r","t","i","s","t","s","}">> ->
             unwrap_vec_field(md.album_artists, join_str)
      [] cap = <<"{","a","l","b","u","m","_","a","r","t","i","s","t","}">> ->
             unwrap_vec_field(md.album_artists, join_str)
      [] cap = <<"{","a","r","t","i","s","t","s","}">> -> unwrap_vec_field(md.artists, join_str)
      [] cap = <<"{","a","r","t","i","s","t","}">> -> unwrap_vec_field(md.artists, join_str)
      [] cap = <<"{","t","i","t","l","e","}">> -> unwrap_str_field(md.title)
      [] cap = <<"{","t","r","a","c","k","}">> -> unwrap_str_field(md.title)
      [] cap = <<"{","t","r","a","c","k","_","n","u","m","b","e","r","}">> ->
             to_string(unwrap_or(md.track_number, 1))
      [] OTHER -> cap

\* Position of the first "}" at or after i, 0 when there is none.
RECURSIVE find_close(_, _)
find_close(s, i) ==
    IF i > Len(s) THEN 0
    ELSE IF s[i] = "}" THEN i
    ELSE find_close(s, i + 1)

\* FORMAT_REGEX.replace_all from position i: the leftmost match of \{[^\}]+\}
\* is replaced, text outside matches is copied.
RECURSIVE replace_all(_, _, _, _)
replace_all(s, i, md, join_str) ==
    IF i > Len(s) THEN << >>
    ELSE LET k == find_close(s, i + 1) IN
         IF s[i] = "{" /\ k >= i + 2
         THEN replace_append(SubSeq(s, i, k), md, join_str) \o replace_all(s, k + 1, md, join_str)
         ELSE <<s[i]>> \o replace_all(s, i + 1, md, join_str)

\* FormattedNotification::new(fmt, metadata, join_str).to_string()
FormattedNotification(fmt, md, join_str) == replace_all(fmt, 1, md, join_str)

-----------------------------------------------------------------------------
(* mpris.rs: the decoder *)

\* A bus variant: its signature and its payload (only the field its signature
\* names is meaningful).
StrV(s) == [sig |-> "s", s |-> s, l |-> << >>, n |-> 0]

VecV(l) == [sig |-> "as", s |-> << >>, l |-> l, n |-> 0]

U32V(n) == [sig |-> "u", s |-> << >>, l |-> << >>, n |-> n]

I32V(n) == [sig |-> "i", s |-> << >>, l |-> << >>, n |-> n]

\* Variant::get::<T>().ok()
get_str(v) == IF v.sig = "s" THEN Some(v.s) ELSE None

get_vec(v) == IF v.sig = "as" THEN Some(v.l) ELSE None

get_u32(v) == IF v.sig = "u" THEN Some(v.n) ELSE None

\* HashMap::get
get(map, key) == IF key \in DOMAIN map THEN Some(map[key]) ELSE None

\* A cache that keeps a sender's first entry (entry().or_insert)
insert_if_absent(map, key, value) ==
    IF IsSome(map[key]) THEN map ELSE [map EXCEPT ![key] = Some(value)]

\* HashMap::insert into the sender cache (a function from senders to options)
insert(map, key, value) == [map EXCEPT ![key] = Some(value)]

\* A parser that takes every string it does not know for Playing
from_str_lenient(s) ==
    CASE s = Paused -> Some("Paused")
      [] s = Stopped -> Some("Stopped")
      [] OTHER -> Some("Playing")

\* PlayerStatus::from_str(s).ok()
from_str(s) ==
    CASE s = Playing -> Some("Playing")
      [] s = Paused -> Some("Paused")
      [] s = Stopped -> Some("Stopped")
      [] OTHER -> None

metadata_from_map(inner) ==
    LET str(key) == IF IsSome(get(inner, key)) THEN get_str(Unwrap(get(inner, key))) ELSE None
        vec(key) == IF IsSome(get(inner, key)) THEN get_vec(Unwrap(get(inner, key))) ELSE None
        u32(key) == IF IsSome(get(inner, key)) THEN get_u32(Unwrap(get(inner, key))) ELSE None
    IN [track_id      |-> str("mpris:trackid"),
        album         |-> str("xesam:album"),
        album_artists |-> vec("xesam:albumArtist"),
        art_url       |-> str("mpris:artUrl"),
        artists       |-> vec("xesam:artist"),
        title         |-> str("xesam:title"),
        track_number  |-> u32("xesam:trackNumber"),
        track_url     |-> str("xesam:url")]

\* The status decoded from the outer map.
decode_status(outer) ==
    IF IsSome(outer.PlaybackStatus) /\ IsSome(get_str(Unwrap(outer.PlaybackStatus)))
    THEN from_str(Unwrap(get_str(Unwrap(outer.PlaybackStatus))))
    ELSE None

\* The metadata decoded from the outer map.
decode_metadata(outer) ==
    IF IsSome(outer.Metadata) /\ Unwrap(outer.Metadata).sig = "a{sv}"
    THEN Some(metadata_from_map(Unwrap(outer.Metadata).map))
    ELSE None

\* A decoder that does not look at the interface name
try_from_any_interface(message) ==
    IF ~IsSome(message.body.changed) THEN None
    ELSE LET outer == Unwrap(message.body.changed)
         IN Some([status |-> decode_status(outer), metadata |-> decode_metadata(outer)])

\* MprisPropertiesChange::try_from(message).ok(): None when the body does not
\* start with the player interface name or holds no property map.
try_from(message) ==
    IF ~IsSome(message.body.interface_name) THEN None
    ELSE IF Unwrap(message.body.interface_name) # MPRIS_INTERFACE THEN None
    ELSE IF ~IsSome(message.body.changed) THEN None
    ELSE LET outer == Unwrap(message.body.changed)
         IN Some([status |-> decode_status(outer), metadata |-> decode_metadata(outer)])

-----------------------------------------------------------------------------
(* notifier.rs *)

\* Notification::new at clock t
Notification_new(sender, md, album_art, t) ==
    [sender |-> sender, metadata |-> md, album_art |-> album_art, last_touched |-> t]

\* Notification::update at clock t
Notification_update(n, md, album_art, t) ==
    [n EXCEPT !.metadata = md, !.album_art = album_art, !.last_touched = t]

\* The image get_album_art decodes from what url holds (art.rs; the pixels
\* stand for the url they came from).
NotificationImage(url) ==
    [width |-> 1, height |-> 1, rowstride |-> 3, alpha |-> FALSE,
     bits_per_sample |-> 8, channels |-> 3, data |-> url]

\* NotificationHintVariant
CaseString(s) == [case |-> "CaseString", string |-> s, image |-> None]

CaseNotificationImage(i) == [case |-> "CaseNotificationImage", string |-> "", image |-> Some(i)]

\* Notifier::format_metadata
format_metadata(cfg, fmt, md) == FormattedNotification(fmt, md, cfg.join_string)

\* A blank check that does not trim
is_blank_untrimmed(subject, body) == subject = << >> /\ body = << >>

\* send_notification's test for an empty notification window
is_blank(subject, body) == trim(subject) = << >> /\ trim(body) = << >>

\* A hints map that holds the image in place of the synchronous hint
hints_of_image_only(album_art) ==
    IF IsSome(album_art)
    THEN ("image-data" :> CaseNotificationImage(Unwrap(album_art)))
    ELSE ("x-canonical-private-synchronous" :> CaseString(NOTIFICATION_SOURCE))

\* The hints map of the Notify call
hints_of(album_art) ==
    IF IsSome(album_art)
    THEN ("x-canonical-private-synchronous" :> CaseString(NOTIFICATION_SOURCE))
         @@ ("image-data" :> CaseNotificationImage(Unwrap(album_art)))
    ELSE ("x-canonical-private-synchronous" :> CaseString(NOTIFICATION_SOURCE))

\* The method call send_notification builds and fills in
notify_message(subject, body, album_art) ==
    [member      |-> "Notify",
     destination |-> NOTIFICATION_NAMESPACE,
     object      |-> NOTIFICATION_OBJECTPATH,
     interface   |-> NOTIFICATION_NAMESPACE,
     params      |-> <<NOTIFICATION_SOURCE, 0, << >>, subject, body, << >>,
                       hints_of(album_art), -1>>]

\* A send_notification that answers a blank notification with an error
send_notification_blank_is_error(cfg, notification, send_ok) ==
    LET subject == format_metadata(cfg, cfg.subject_format, notification.metadata)
        body    == format_metadata(cfg, cfg.body_format, notification.metadata)
    IN IF is_blank(subject, body)
       THEN [call |-> None, ret |-> "Err"]
       ELSE [call |-> Some(notify_message(subject, body, notification.album_art)),
             ret  |-> IF send_ok THEN "Ok" ELSE "Err"]

\* Notifier::send_notification: the call handed to the transport (None when
\* suppressed) and the result; send_ok is what DBusConnection::send_message
\* answers.
send_notification(cfg, notification, send_ok) ==
    LET subject == format_metadata(cfg, cfg.subject_format, notification.metadata)
        body    == format_metadata(cfg, cfg.body_format, notification.metadata)
    IN IF is_blank(subject, body)
       THEN [call |-> None, ret |-> "Ok"]
       ELSE [call |-> Some(notify_message(subject, body, notification.album_art)),
             ret  |-> IF send_ok THEN "Ok" ELSE "Err"]

-----------------------------------------------------------------------------
(* signal_handler.rs *)

\* A Command that is given the program and none of its arguments
Command_without_args(command_args) == [program |-> command_args[1], args |-> << >>]

\* One argument vector of configuration.commands as a Command
Command(command_args) == [program |-> command_args[1], args |-> Tail(command_args)]

\* handle_signal, lines 95-108: the pending commands rebuilt from configuration
RECURSIVE build_commands(_)
build_commands(commands) ==
    IF commands = << >> THEN << >>
    ELSE IF Len(Head(commands)) = 0 THEN build_commands(Tail(commands))
    ELSE <<Command(Head(commands))>> \o build_commands(Tail(commands))

\* A delay that is over at exactly 250 ms
is_due_inclusive(pending, t) == t - pending.last_touched >= NOTIFICATION_DELAY

\* handle_pending, lines 60-61: is the pending notification due at clock t
is_due(pending, t) == t - pending.last_touched > NOTIFICATION_DELAY

\* A command loop that gives up at the first command that fails
RECURSIVE run_commands_until_failure(_, _)
run_commands_until_failure(commands, fails) ==
    IF commands = << >> THEN << >>
    ELSE IF Head(fails) THEN <<Head(commands)>>
    ELSE <<Head(commands)>> \o run_commands_until_failure(Tail(commands), Tail(fails))

\* handle_pending, lines 65-72: the commands attempted, given which of them
\* fail (a failure is logged and the loop goes on)
RECURSIVE run_commands(_, _)
run_commands(commands, fails) ==
    IF commands = << >> THEN << >>
    ELSE <<Head(commands)>> \o run_commands(Tail(commands), Tail(fails))

\* A handle_pending whose command loop stands outside the test of the delay
handle_pending_commands_always(self, t, send_ok, fails) ==
    IF ~IsSome(self.pending_notification)
    THEN [ret |-> "Ok", path |-> "idle", self |-> self, sent |-> << >>, ran |-> << >>]
    ELSE IF ~(t - Unwrap(self.pending_notification).last_touched > NOTIFICATION_DELAY)
    THEN [ret |-> "Ok", path |-> "early",
          self |-> [self EXCEPT !.pending_commands = << >>],
          sent |-> << >>, ran |-> self.pending_commands]
    ELSE LET notification == Unwrap(self.pending_notification)
             r == send_notification(self.configuration, notification, send_ok)
             taken == [self EXCEPT !.pending_notification = None]
             entry == [sender |-> notification.sender, metadata |-> notification.metadata,
                       album_art |-> notification.album_art, call |-> r.call]
         IN IF r.ret = "Err"
            THEN [ret |-> "Err", path |-> "due", self |-> taken, sent |-> <<entry>>, ran |-> << >>]
            ELSE [ret |-> "Ok", path |-> "due",
                  self |-> [taken EXCEPT !.pending_commands = << >>],
                  sent |-> <<entry>>,
                  ran |-> self.pending_commands]

\* The pending notification read and left in its slot
take_keep(self) == self

\* handle_pending, line 63: self.pending_notification.take()
take(self) == [self EXCEPT !.pending_notification = None]

\* SignalHandler::handle_pending at clock t, as a function of the handler's
\* state: self is [configuration, metadata, pending_notification,
\* pending_commands].
handle_pending(self, t, send_ok, fails) ==
    IF ~IsSome(self.pending_notification)
    THEN [ret |-> "Ok", path |-> "idle", self |-> self, sent |-> << >>, ran |-> << >>]
    ELSE IF ~is_due(Unwrap(self.pending_notification), t)
    THEN [ret |-> "Ok", path |-> "early", self |-> self, sent |-> << >>, ran |-> << >>]
    ELSE LET notification == Unwrap(self.pending_notification)
             r == send_notification(self.configuration, notification, send_ok)
             taken == take(self)
             entry == [sender |-> notification.sender, metadata |-> notification.metadata,
                       album_art |-> notification.album_art, call |-> r.call]
         IN IF r.ret = "Err"
            THEN [ret |-> "Err", path |-> "due", self |-> taken, sent |-> <<entry>>, ran |-> << >>]
            ELSE [ret |-> "Ok", path |-> "due",
                  self |-> [taken EXCEPT !.pending_commands = << >>],
                  sent |-> <<entry>>,
                  ran |-> run_commands(self.pending_commands, fails)]

\* A metadata step that leaves an existing pending notification as it is
step_metadata_once(pending, sender, new_metadata, t) ==
    IF IsSome(pending)
    THEN pending
    ELSE Some(Notification_new(sender, new_metadata, None, t))

\* handle_signal, lines 123-140: the pending notification after a change that
\* carries new_metadata
step_metadata(pending, sender, new_metadata, t) ==
    IF IsSome(pending)
    THEN IF Unwrap(pending).sender = sender
         THEN Some(Notification_update(Unwrap(pending), new_metadata, None, t))
         ELSE pending
    ELSE Some(Notification_new(sender, new_metadata, None, t))

\* A status step in which Playing never replaces a pending notification
step_status_keep(pending, sender, md, status, t) ==
    IF status = "Playing"
    THEN IF IsSome(pending) THEN pending ELSE Some(Notification_new(sender, md, None, t))
    ELSE None

\* A status step in which Playing arms nothing
step_status_no_rearm(pending, sender, md, status, t) ==
    IF status = "Playing"
    THEN pending
    ELSE None

\* A status step in which Paused and Stopped cancel only the sender's own
\* notification
step_status_own_only(pending, sender, md, status, t) ==
    IF status = "Playing"
    THEN Some(Notification_new(sender, md, None, t))
    ELSE IF IsSome(pending) /\ Unwrap(pending).sender = sender THEN None ELSE pending

\* A status step in which Playing keeps the image the sender's notification
\* had
step_status_keep_art(pending, sender, md, status, t) ==
    IF status = "Playing"
    THEN Some(Notification_new(sender, md,
                               IF IsSome(pending) /\ Unwrap(pending).sender = sender
                               THEN Unwrap(pending).album_art ELSE None, t))
    ELSE None

\* handle_signal, lines 153-159: the pending notification after a change that
\* carries a status
step_status(pending, sender, md, status, t) ==
    IF status = "Playing"
    THEN Some(Notification_new(sender, md, None, t))
    ELSE None

\* An album art test that does not look at the configuration
wants_art_always(cfg, md) == IsSome(md.art_url)

\* handle_signal, line 170: is the album art fetched
wants_art(cfg, md) == IsSome(md.art_url) /\ cfg.enable_album_art

\* An album art step that gives the notification up when the fetch fails
step_art_cancel(pending, md, fetch_ok, t) ==
    IF fetch_ok
    THEN Some(Notification_update(Unwrap(pending), md, Some(NotificationImage(Unwrap(md.art_url))), t))
    ELSE None

\* An album art step that touches the notification when the fetch fails
step_art_touch(pending, md, fetch_ok, t) ==
    IF fetch_ok
    THEN Some(Notification_update(Unwrap(pending), md, Some(NotificationImage(Unwrap(md.art_url))), t))
    ELSE Some([Unwrap(pending) EXCEPT !.last_touched = t])

\* handle_signal, lines 171-181: the pending notification after the fetch
step_art(pending, md, fetch_ok, t) ==
    IF fetch_ok
    THEN Some(Notification_update(Unwrap(pending), md, Some(NotificationImage(Unwrap(md.art_url))), t))
    ELSE pending

\* A cache lookup that answers a record of absent fields for a sender it
\* does not know
cache_get_or_default(map, key) ==
    IF IsSome(map[key]) THEN map[key] ELSE Some(metadata_from_map(<< >>))

\* handle_signal, lines 123 and 127: self.metadata.get(&sender)
cache_get(map, key) == map[key]

\* handle_signal, lines 91-185: what it does once the signal's sender is
\* known
handle_signal_from(self, sender, message, t0, fetch_ok, t1) ==
    LET change == try_from(message)
        s1 == [self EXCEPT !.pending_commands = build_commands(self.configuration.commands)]
    IN  IF ~IsSome(change)
        THEN [ret |-> "Ok", path |-> "ignored", fetch |-> "none", self |-> s1]
        ELSE
        LET c == Unwrap(change)
            s2 == IF IsSome(c.metadata)
                  THEN [s1 EXCEPT !.metadata = insert(s1.metadata, sender, Unwrap(c.metadata)),
                                  !.pending_notification =
                                      step_metadata(s1.pending_notification, sender,
                                                    Unwrap(c.metadata), t0)]
                  ELSE s1
            md == cache_get(s2.metadata, sender)
        IN  IF ~IsSome(md)
            THEN [ret |-> "Ok", path |-> "no_metadata", fetch |-> "none", self |-> s2]
            ELSE
            LET s3 == IF IsSome(c.status)
                      THEN [s2 EXCEPT !.pending_notification =
                                step_status(s2.pending_notification, sender, Unwrap(md),
                                            Unwrap(c.status), t0)]
                      ELSE s2
            IN  IF ~IsSome(s3.pending_notification)
                THEN [ret |-> "Ok", path |-> "idle", fetch |-> "none", self |-> s3]
                ELSE IF wants_art(self.configuration, Unwrap(md))
                THEN [ret |-> "Ok", path |-> "armed",
                      fetch |-> IF fetch_ok THEN "ok" ELSE "err",
                      self |-> [s3 EXCEPT !.pending_notification =
                                   step_art(s3.pending_notification, Unwrap(md), fetch_ok, t1)]]
                ELSE [ret |-> "Ok", path |-> "armed", fetch |-> "none", self |-> s3]

\* A handle_signal that rebuilds the commands before it looks for the sender
handle_signal_commands_first(self, message, t0, fetch_ok, t1) ==
    IF ~IsSome(message.sender)
    THEN [ret |-> "Err", path |-> "no_sender", fetch |-> "none",
          self |-> [self EXCEPT !.pending_commands = build_commands(self.configuration.commands)]]
    ELSE handle_signal_from(self, Unwrap(message.sender), message, t0, fetch_ok, t1)

\* SignalHandler::handle_signal, entered at clock t0, as a function of the
\* handler's state; the album art fetch, when made, answers fetch_ok at
\* clock t1. A signal without a sender is answered with an error at once.
handle_signal(self, message, t0, fetch_ok, t1) ==
    IF ~IsSome(message.sender)
    THEN [ret |-> "Err", path |-> "no_sender", fetch |-> "none", self |-> self]
    ELSE handle_signal_from(self, Unwrap(message.sender), message, t0, fetch_ok, t1)

-----------------------------------------------------------------------------
(* The inputs *)

\* Bus names of the players
Senders == {"A", "B"}

\* Time that passes between two calls, and the time an album art fetch takes
TickSteps == {125}

FetchTimes == {0, 125}

\* Metadata maps as players send them
Raw0 == << >>

Raw1 == ("xesam:title" :> StrV(<<"a">>)) @@ ("xesam:album" :> StrV(<<"b">>))
        @@ ("xesam:artist" :> VecV(<< <<"x">>, <<"y">> >>))
        @@ ("xesam:trackNumber" :> U32V(12))

Raw2 == ("xesam:title" :> StrV(<<"c">>)) @@ ("mpris:artUrl" :> StrV(<<"u">>))
        @@ ("xesam:trackNumber" :> I32V(3))

RawMaps == {Raw0, Raw1, Raw2}

RawMetadata == {None} \cup {Some([sig |-> "a{sv}", map |-> r]) : r \in RawMaps}

RawStatuses ==
    {None, Some(StrV(Playing)), Some(StrV(Paused)), Some(StrV(Stopped)),
     Some(StrV(<<"?">>))}

\* A property change of the player interface
PlayerBody(st, m) ==
    [interface_name |-> Some(MPRIS_INTERFACE),
     changed |-> Some([PlaybackStatus |-> st, Metadata |-> m])]

\* Bodies of PropertiesChanged signals: of the player interface (one of them
\* with a status that is no string and a Metadata that is no map), of another
\* interface, and one with no leading string
Bodies ==
    {PlayerBody(st, m) : st \in RawStatuses, m \in RawMetadata}
    \cup {PlayerBody(Some(U32V(1)), Some([sig |-> "s", map |-> << >>])),
          [interface_name |-> Some("org.mpris.MediaPlayer2"),
           changed |-> Some([PlaybackStatus |-> Some(StrV(Playing)),
                             Metadata |-> Some([sig |-> "a{sv}", map |-> Raw1])])],
          [interface_name |-> None, changed |-> None]}

Signals ==
    {[typ |-> "Signal", sender |-> Some(x), body |-> b] : x \in Senders, b \in Bodies}
    \cup {[typ |-> "Signal", sender |-> None, body |-> PlayerBody(Some(StrV(Playing)),
                                               Some([sig |-> "a{sv}", map |-> Raw1]))]}

\* Configurations: one with templates that can render blank, album art and
\* commands (one of them an empty argument vector); the defaults of
\* configuration.rs with album art switched off.
Configurations ==
    {[subject_format   |-> <<"{","t","i","t","l","e","}">>,
      body_format      |-> <<" ","{","a","l","b","u","m","}"," ">>,
      join_string      |-> <<",", " ">>,
      enable_album_art |-> TRUE,
      commands         |-> << <<"c1">>, << >>, <<"c2", "x">> >>],
     [subject_format   |-> <<"{","t","r","a","c","k","}">>,
      body_format      |-> <<"{","a","l","b","u","m","}"," ","-"," ","{","a","r","t","i","s","t","}">>,
      join_string      |-> <<",", " ">>,
      enable_album_art |-> FALSE,
      commands         |-> << >>]}

-----------------------------------------------------------------------------
(* The handler and the calls made on it *)

\* The SignalHandler as handle_signal and handle_pending see it
Self ==
    [configuration |-> configuration, metadata |-> metadata,
     pending_notification |-> pending_notification,
     pending_commands |-> pending_commands]

\* SignalHandler::new
Init ==
    /\ configuration \in Configurations
    /\ metadata = [x \in Senders |-> None]
    /\ pending_notification = None
    /\ pending_commands = << >>
    /\ now = 0
    /\ flushed = << >>
    /\ last = [op |-> "new", ret |-> "Ok", path |-> "none", fetch |-> "none",
               sent |-> << >>, ran |-> << >>, was |-> None]
    /\ seen = [x \in Senders |-> None]
    /\ step = 0
    /\ sig_at = 0
    /\ pc = "handle_pending"
    /\ inbox = << >>
    /\ signal = None

\* The metadata the latest decoded change of each sender carried
Seen(message) ==
    LET change == try_from(message)
    IN  IF IsSome(message.sender) /\ IsSome(change) /\ IsSome(Unwrap(change).metadata)
        THEN [seen EXCEPT ![Unwrap(message.sender)] = Unwrap(change).metadata]
        ELSE seen

\* The sender whose notification is pending
Owner == IF IsSome(pending_notification) THEN Some(Unwrap(pending_notification).sender) ELSE None

\* A call of handle_pending
CallHandlePending(send_ok, fails) ==
    LET r == handle_pending(Self, now, send_ok, fails)
    IN /\ metadata' = r.self.metadata
       /\ pending_notification' = r.self.pending_notification
       /\ pending_commands' = r.self.pending_commands
       /\ last' = [op |-> "handle_pending", ret |-> r.ret, path |-> r.path,
                   fetch |-> "none", sent |-> r.sent, ran |-> r.ran, was |-> Owner]
       /\ UNCHANGED <<configuration, now, seen>>

\* The state a call of handle_signal leaves, r being what it answered
AfterHandleSignal(message, r, t1) ==
    /\ t1 <= MaxTime
    /\ metadata' = r.self.metadata
    /\ pending_notification' = r.self.pending_notification
    /\ pending_commands' = r.self.pending_commands
    /\ now' = t1
    /\ last' = [op |-> "handle_signal", ret |-> r.ret, path |-> r.path,
                fetch |-> r.fetch, sent |-> << >>, ran |-> << >>, was |-> Owner]
    /\ seen' = Seen(message)
    /\ UNCHANGED configuration

\* A call of handle_signal; when it fetches album art, the fetch succeeds or
\* fails and the clock advances by the time it took
CallHandleSignal(message) ==
    LET r == handle_signal(Self, message, now, TRUE, now)
    IN  IF r.fetch = "none"
        THEN AfterHandleSignal(message, r, now)
        ELSE \E fetch_ok \in BOOLEAN, took \in FetchTimes :
                AfterHandleSignal(message,
                                  handle_signal(Self, message, now, fetch_ok, now + took),
                                  now + took)

\* Which commands of a run fail
Fails == [1..Len(pending_commands) -> BOOLEAN]

\* Time passes
Tick ==
    /\ \E d \in TickSteps : now + d <= MaxTime /\ now' = now + d
    /\ UNCHANGED <<configuration, engine, flushed, last, seen, step, sig_at,
                   pc, inbox, signal>>

\* The engine polled at any moment
Pending ==
    /\ \E send_ok \in BOOLEAN, fails \in Fails : CallHandlePending(send_ok, fails)
    /\ UNCHANGED <<flushed, step, sig_at, pc, inbox, signal>>

\* Any signal handled at any moment
Signal ==
    /\ \E message \in Signals : CallHandleSignal(message)
    /\ UNCHANGED <<flushed, step, sig_at, pc, inbox, signal>>

Next == Tick \/ Pending \/ Signal

Spec == Init /\ [][Next]_vars

-----------------------------------------------------------------------------
(* Scenarios: the handler driven by a fixed sequence of signals, polled at any
   moment in between; flushed records what each poll handed to the notifier,
   step counts the signals handled and sig_at is the clock at which the
   latest one arrived. *)

\* A change of sender x that carries only metadata
MetadataOnly(x, raw) ==
    [typ |-> "Signal", sender |-> Some(x),
     body |-> PlayerBody(None, Some([sig |-> "a{sv}", map |-> raw]))]

\* A change of sender x that carries only a playback status
StatusOnly(x, st) ==
    [typ |-> "Signal", sender |-> Some(x), body |-> PlayerBody(Some(StrV(st)), None)]

\* The sender of the scenario, once its first signal was handled
ScriptSender == CHOOSE x \in Senders : IsSome(seen[x])

\* The engine polled, what it hands to the notifier being recorded
ScriptPending ==
    /\ \E send_ok \in BOOLEAN, fails \in Fails :
          /\ CallHandlePending(send_ok, fails)
          /\ flushed' = flushed \o handle_pending(Self, now, send_ok, fails).sent
    /\ UNCHANGED <<step, sig_at, pc, inbox, signal>>

\* The next signal of a scenario is handled
ScriptSignal(message) ==
    /\ CallHandleSignal(message)
    /\ step' = step + 1
    /\ sig_at' = now
    /\ UNCHANGED <<flushed, pc, inbox, signal>>

\* Two metadata-only changes of one sender, the second less than 250 ms after
\* the first, and no other signal
TwoChangesFirst ==
    /\ step = 0
    /\ \E x \in Senders, raw \in RawMaps : ScriptSignal(MetadataOnly(x, raw))

TwoChangesSecond ==
    /\ step = 1
    /\ now - sig_at < NOTIFICATION_DELAY
    /\ \E raw \in RawMaps : ScriptSignal(MetadataOnly(ScriptSender, raw))

TwoChangesNext == Tick \/ ScriptPending \/ TwoChangesFirst \/ TwoChangesSecond

TwoChangesSpec == Init /\ [][TwoChangesNext]_vars

\* Metadata M, Playing, a flush, Paused, Playing again, all of one sender
ResumeMetadata ==
    /\ step = 0
    /\ \E x \in Senders, raw \in RawMaps : ScriptSignal(MetadataOnly(x, raw))

ResumePlaying ==
    /\ \/ step = 1 /\ flushed = << >>
       \/ step = 3
    /\ ScriptSignal(StatusOnly(ScriptSender, Playing))

ResumePaused ==
    /\ step = 2
    /\ Len(flushed) = 1
    /\ pending_notification = None
    /\ ScriptSignal(StatusOnly(ScriptSender, Paused))

ResumeNext == Tick \/ ScriptPending \/ ResumeMetadata \/ ResumePlaying \/ ResumePaused

ResumeSpec == Init /\ [][ResumeNext]_vars

-----------------------------------------------------------------------------
(* The event loop of main.rs on the connection of dbus.rs: pc is the loop's
   position, inbox the messages the bus has delivered and the loop has not
   received yet, signal the message next_signal returned, step the number of
   messages delivered so far. *)

\* Messages the bus delivers to the loop: signals of players, a signal without
\* sender, an error message and a method return
LoopMessages ==
    {MetadataOnly("A", Raw1), StatusOnly("A", Paused), MetadataOnly("B", Raw2),
     [typ |-> "Signal", sender |-> None, body |-> PlayerBody(Some(StrV(Playing)), None)],
     [typ |-> "Error", sender |-> None, body |-> [interface_name |-> None, changed |-> None]],
     [typ |-> "Reply", sender |-> None, body |-> [interface_name |-> None, changed |-> None]]}

\* An error as a call of event_loop returns it and event_loop passes it on
\* with ?, leaving the loop
propagated(ret, next) == IF ret = "Err" THEN "exit" ELSE next

\* event_loop, lines 40-42, 45-47 and 50: the loop's position after a call
\* that returned ret: an error is logged and the loop goes on to next
logged(ret, next) == next

\* The bus delivers a message
Deliver ==
    /\ Len(inbox) < MaxInbox
    /\ step < MaxDelivered
    /\ \E message \in LoopMessages : inbox' = Append(inbox, message)
    /\ step' = step + 1
    /\ UNCHANGED <<configuration, engine, now, flushed, last, seen, sig_at, pc, signal>>

\* event_loop, line 40: handle_pending, an error of which is logged
LoopHandlePending ==
    /\ pc = "handle_pending"
    /\ \E send_ok \in BOOLEAN, fails \in Fails :
          /\ CallHandlePending(send_ok, fails)
          /\ flushed' = flushed \o handle_pending(Self, now, send_ok, fails).sent
          /\ pc' = logged(handle_pending(Self, now, send_ok, fails).ret, "next_signal")
    /\ UNCHANGED <<step, sig_at, inbox, signal>>

\* next_signal, line 64: get_next_message(Timeout::Infinite) with no message
\* to receive: the loop stays in the call while time passes
LoopBlocked ==
    /\ pc = "next_signal"
    /\ inbox = << >>
    /\ \E d \in TickSteps : now + d <= MaxTime /\ now' = now + d
    /\ UNCHANGED <<configuration, engine, flushed, last, seen, step, sig_at, pc, inbox, signal>>

\* What next_signal returned, as the latest call
Returned(op, ret) ==
    [op |-> op, ret |-> ret, path |-> "none", fetch |-> "none",
     sent |-> << >>, ran |-> << >>, was |-> Owner]

\* next_signal, lines 63-76, with a message to receive: a signal is returned
\* to event_loop, an error message is returned as an error (which event_loop
\* logs), any other message is dropped and next_signal receives again
LoopNextSignal ==
    /\ pc = "next_signal"
    /\ inbox # << >>
    /\ inbox' = Tail(inbox)
    /\ CASE Head(inbox).typ = "Signal" ->
                /\ signal' = Some(Head(inbox))
                /\ last' = Returned("next_signal", "Ok")
                /\ pc' = logged("Ok", "handle_signal")
         [] Head(inbox).typ = "Error" ->
                /\ signal' = None
                /\ last' = Returned("next_signal", "Err")
                /\ pc' = logged("Err", "sleep")
         [] OTHER ->
                /\ signal' = None
                /\ pc' = "next_signal"
                /\ UNCHANGED last
    /\ UNCHANGED <<configuration, engine, now, flushed, seen, step, sig_at>>

\* event_loop, lines 44-48: handle_signal, an error of which is logged
LoopHandleSignal ==
    /\ pc = "handle_signal"
    /\ CallHandleSignal(Unwrap(signal))
    /\ signal' = None
    /\ pc' = logged(last'.ret, "sleep")
    /\ UNCHANGED <<flushed, step, sig_at, inbox>>

\* event_loop, line 53: thread::sleep(LOOP_DELAY)
LoopSleep ==
    /\ pc = "sleep"
    /\ now + LOOP_DELAY <= MaxTime
    /\ now' = now + LOOP_DELAY
    /\ pc' = "handle_pending"
    /\ UNCHANGED <<configuration, engine, flushed, last, seen, step, sig_at, inbox, signal>>

LoopStep == LoopHandlePending \/ LoopBlocked \/ LoopNextSignal \/ LoopHandleSignal \/ LoopSleep

LoopNext == Deliver \/ LoopHandlePending \/ LoopBlocked \/ LoopNextSignal
            \/ LoopHandleSignal \/ LoopSleep

\* The loop's thread keeps running and time keeps passing; the bus is not
\* obliged to deliver anything.
LoopSpec == Init /\ [][LoopNext]_vars /\ WF_vars(LoopStep)

-----------------------------------------------------------------------------
(* The engine polled for ever: a signal with a sender is handled early on,
   time passes and handle_pending is called again and again, as the main
   loop is meant to call it (signal_handler.rs, lines 56-57); the transport
   accepts every call. *)

SignalsWithSender == {message \in Signals : IsSome(message.sender)}

\* A signal of the scenario, handled early enough for a notification it arms
\* to become due
PolledSignal ==
    /\ step < MaxSignals
    /\ now + 2 * NOTIFICATION_DELAY <= MaxTime
    /\ \E message \in SignalsWithSender : ScriptSignal(message)

\* handle_pending called by the loop, the transport accepting every call
PolledPending ==
    /\ \E fails \in Fails :
          /\ CallHandlePending(TRUE, fails)
          /\ flushed' = flushed \o handle_pending(Self, now, TRUE, fails).sent
    /\ UNCHANGED <<step, sig_at, pc, inbox, signal>>

PolledNext == Tick \/ PolledPending \/ PolledSignal

\* Time keeps passing and handle_pending keeps being called
PolledSpec == Init /\ [][PolledNext]_vars /\ WF_vars(Tick \/ PolledPending)

-----------------------------------------------------------------------------
(* Changes that carry nothing the engine reads: metadata-only changes fill
   the cache and arm a notification, then changes with no status, or with a
   status that is no known word or no string, and without metadata are
   handled; signal holds the latest of these while it is the latest signal
   handled. *)

ArmingSignals == {MetadataOnly(x, raw) : x \in Senders, raw \in {Raw1, Raw2}}

InertSignals ==
    {[typ |-> "Signal", sender |-> Some(x), body |-> b] :
        x \in Senders,
        b \in {PlayerBody(None, None),
               PlayerBody(Some(StrV(<<"?">>)), None),
               PlayerBody(Some(U32V(1)), Some([sig |-> "s", map |-> << >>]))}}

\* The engine polled; the signal handled before is no more the latest call
InertPending ==
    /\ \E send_ok \in BOOLEAN, fails \in Fails : CallHandlePending(send_ok, fails)
    /\ signal' = None
    /\ UNCHANGED <<flushed, step, sig_at, pc, inbox>>

InertArm ==
    /\ step < MaxHandled
    /\ \E message \in ArmingSignals : CallHandleSignal(message)
    /\ step' = step + 1
    /\ signal' = None
    /\ UNCHANGED <<flushed, sig_at, pc, inbox>>

InertHandle ==
    /\ step < MaxHandled
    /\ \E message \in InertSignals :
          /\ CallHandleSignal(message)
          /\ signal' = Some(message)
    /\ step' = step + 1
    /\ UNCHANGED <<flushed, sig_at, pc, inbox>>

InertNext == Tick \/ InertPending \/ InertArm \/ InertHandle

InertSpec == Init /\ [][InertNext]_vars

-----------------------------------------------------------------------------
(* The formatter on its own: templates put together from pieces, rendered
   against metadata records; last holds the template, the record and the
   rendered text. *)

\* The pieces of templates: the tokens replace_append knows, an unknown
\* token, single braces and plain text
Pieces ==
    {<<"{","a","l","b","u","m","}">>,
     <<"{","a","l","b","u","m","_","a","r","t","i","s","t","s","}">>,
     <<"{","a","l","b","u","m","_","a","r","t","i","s","t","}">>,
     <<"{","a","r","t","i","s","t","s","}">>,
     <<"{","a","r","t","i","s","t","}">>,
     <<"{","t","i","t","l","e","}">>,
     <<"{","t","r","a","c","k","}">>,
     <<"{","t","r","a","c","k","_","n","u","m","b","e","r","}">>,
     <<"{","n","o","p","}">>,
     <<"{">>,
     <<"}">>,
     <<"x">>,
     <<" ">>}

\* The templates of at most MaxPieces pieces
RECURSIVE TemplatesOf(_)
TemplatesOf(n) ==
    IF n = 0 THEN {<< >>}
    ELSE TemplatesOf(n - 1) \cup {tpl \o piece : tpl \in TemplatesOf(n - 1), piece \in Pieces}

Templates == TemplatesOf(MaxPieces)

\* Records as the decoder makes them
RenderMetadata ==
    {metadata_from_map(raw) : raw \in RawMaps}
    \cup {metadata_from_map(("xesam:title" :> StrV(<<"t">>))
                            @@ ("xesam:album" :> StrV(<<"l">>))
                            @@ ("xesam:albumArtist" :> VecV(<< <<"p">>, <<"q">> >>))
                            @@ ("xesam:artist" :> VecV(<< <<"r">> >>))
                            @@ ("xesam:trackNumber" :> U32V(7)))}

\* The configurations whose subject format is one of the templates
RenderConfigurations ==
    {[c EXCEPT !.subject_format = tpl] : c \in Configurations, tpl \in Templates}

RenderInit ==
    /\ configuration \in RenderConfigurations
    /\ metadata = [x \in Senders |-> None]
    /\ pending_notification = None
    /\ pending_commands = << >>
    /\ now = 0
    /\ flushed = << >>
    /\ last = [op |-> "new", ret |-> "Ok", path |-> "none", fetch |-> "none",
               sent |-> << >>, ran |-> << >>, was |-> None]
    /\ seen = [x \in Senders |-> None]
    /\ step = 0
    /\ sig_at = 0
    /\ pc = "handle_pending"
    /\ inbox = << >>
    /\ signal = None

\* Notifier::format_metadata applied to the subject format and a record
Render ==
    /\ \E md \in RenderMetadata :
          last' = [op  |-> "format_metadata",
                   fmt |-> configuration.subject_format,
                   md  |-> md,
                   ret |-> format_metadata(configuration,
                                           configuration.subject_format, md)]
    /\ UNCHANGED <<configuration, metadata, pending_notification,
                   pending_commands, now, flushed, seen, step, sig_at, pc,
                   inbox, signal>>

RenderNext == Render

RenderSpec == RenderInit /\ [][RenderNext]_vars

-----------------------------------------------------------------------------
(* Properties of the handler calls.  handle_pending and handle_signal are   *)
(* functions of the handler's state, and Next applies them to every input   *)
(* in every state: a property of their results in all reachable states is   *)
(* a property of every call the program can make.                           *)

\* Time since the pending notification was last touched
Elapsed == now - Unwrap(pending_notification).last_touched

\* C1: handle_pending hands the pending notification to the notifier only
\* when more than 250 ms (NOTIFICATION_DELAY) have passed since its
\* last_touched; in every other call (nothing pending, or 250 ms or less) it
\* sends nothing, runs no command and leaves the pending notification and the
\* pending commands as they were.
C1_SendsOnlyAfterDelay ==
    \A send_ok \in BOOLEAN, fails \in Fails :
        LET r == handle_pending(Self, now, send_ok, fails)
        IN /\ r.sent # << >> => (IsSome(pending_notification) /\ Elapsed > NOTIFICATION_DELAY)
           /\ ~(IsSome(pending_notification) /\ Elapsed > NOTIFICATION_DELAY) =>
                 /\ r.sent = << >>
                 /\ r.ran = << >>
                 /\ r.self.pending_notification = pending_notification
                 /\ r.self.pending_commands = pending_commands

\* handle_pending was called exactly 250 ms after the last touch and left the
\* notification pending, with its commands.
C1_Witness ==
    /\ last.op = "handle_pending" /\ last.path = "early"
    /\ IsSome(pending_notification) /\ Elapsed = NOTIFICATION_DELAY
    /\ pending_commands # << >>

\* Only whitespace
Blank(s) == \A i \in 1..Len(s) : s[i] \in {" ", "\t", "\n"}

\* The decoded change of a message that has one
Change(message) == Unwrap(try_from(message))

Decoded(message) == IsSome(message.sender) /\ IsSome(try_from(message))

\* The signals that carry no metadata to cache
SignalsWithoutMetadata ==
    {message \in Signals : ~(Decoded(message) /\ IsSome(Change(message).metadata))}

\* C6: for every sender the cache entry is the metadata of the latest decoded
\* change of that sender that carried metadata (none if there was none),
\* whatever became of the notifications; handle_pending and changes without
\* metadata never modify the cache.
C6_CacheIsLatestMetadata ==
    /\ metadata = seen
    /\ \A send_ok \in BOOLEAN, fails \in Fails :
           handle_pending(Self, now, send_ok, fails).self.metadata = metadata
    /\ \A message \in SignalsWithoutMetadata, fetch_ok \in BOOLEAN :
           handle_signal(Self, message, now, fetch_ok, now).self.metadata = metadata

\* A sender's cache entry was overwritten by a change that also cleared the
\* pending notification: the cache holds metadata that was never notified.
C6_Witness ==
    /\ last.op = "handle_signal" /\ last.path = "idle"
    /\ \E x \in Senders : IsSome(metadata[x]) /\ last.was = Some(x)
    /\ pending_notification = None

\* C7: a signal with a sender whose first body field is not the player
\* interface name is answered with success and changes neither the pending
\* notification (its last_touched included) nor the sender cache; nothing is
\* armed; while a notification is pending its commands stay as they were.
C7_ForeignSignalIgnored ==
    \A message \in {m \in Signals : IsSome(m.sender)
                                     /\ m.body.interface_name # Some(MPRIS_INTERFACE)},
       fetch_ok \in BOOLEAN, took \in FetchTimes :
            LET r == handle_signal(Self, message, now, fetch_ok, now + took)
            IN /\ r.ret = "Ok"
               /\ r.self.pending_notification = pending_notification
               /\ r.self.metadata = metadata
               /\ IsSome(pending_notification) => r.self.pending_commands = pending_commands

\* A signal was ignored while a notification was pending.
C7_Witness ==
    /\ last.op = "handle_signal" /\ last.path = "ignored" /\ last.ret = "Ok"
    /\ IsSome(pending_notification)

\* C8: no Notify call carries a subject and a body that are both blank: a
\* notification that renders so is answered with success and no call.
C8_NoBlankNotify ==
    \A send_ok \in BOOLEAN, fails \in Fails :
        LET r == handle_pending(Self, now, send_ok, fails)
        IN \A i \in DOMAIN r.sent :
            /\ IsSome(r.sent[i].call) =>
                   ~(Blank(Unwrap(r.sent[i].call).params[4])
                     /\ Blank(Unwrap(r.sent[i].call).params[5]))
            /\ (Blank(format_metadata(configuration, configuration.subject_format,
                                      r.sent[i].metadata))
                /\ Blank(format_metadata(configuration, configuration.body_format,
                                         r.sent[i].metadata))) =>
                   (r.sent[i].call = None /\ r.ret = "Ok")

\* A due notification was handed to the notifier, which made no call.
C8_Witness ==
    /\ last.op = "handle_pending" /\ last.path = "due" /\ last.ret = "Ok"
    /\ Len(last.sent) = 1 /\ last.sent[1].call = None

\* Does handle_signal create or update the pending notification for this
\* message before it turns to the album art
ArmedBy(message) ==
    \/ /\ IsSome(Change(message).metadata)
       /\ (pending_notification = None \/ Owner = message.sender)
    \/ Change(message).status = Some("Playing")

\* C9: a failing album art fetch neither blocks nor cancels the notification:
\* handle_signal answers success and a notification is pending; when this
\* signal armed it, it is the sender's, carries the sender's cached metadata
\* and has no image; otherwise it is the one that was pending, untouched.
\* And a pending notification without an image, once due, is handed over and
\* its Notify call has no image-data hint.
C9_ArtFailureKeepsNotification ==
    /\ \A message \in {m \in Signals :
                          handle_signal(Self, m, now, FALSE, now).fetch = "err"},
          took \in FetchTimes :
        LET r == handle_signal(Self, message, now, FALSE, now + took)
        IN r.fetch = "err" =>
            /\ r.ret = "Ok"
            /\ IsSome(r.self.pending_notification)
            /\ ArmedBy(message) =>
                   /\ Some(Unwrap(r.self.pending_notification).sender) = message.sender
                   /\ Some(Unwrap(r.self.pending_notification).metadata)
                          = r.self.metadata[Unwrap(message.sender)]
                   /\ Unwrap(r.self.pending_notification).album_art = None
            /\ ~ArmedBy(message) => r.self.pending_notification = pending_notification
    /\ (IsSome(pending_notification) /\ Unwrap(pending_notification).album_art = None
        /\ Elapsed > NOTIFICATION_DELAY) =>
        \A send_ok \in BOOLEAN, fails \in Fails :
            LET r == handle_pending(Self, now, send_ok, fails)
            IN /\ Len(r.sent) = 1
               /\ r.sent[1].album_art = None
               /\ IsSome(r.sent[1].call) =>
                      DOMAIN Unwrap(r.sent[1].call).params[7]
                          = {"x-canonical-private-synchronous"}

\* A signal armed a notification, its album art fetch failed, and the
\* notification is pending without an image.
C9_Witness ==
    /\ last.op = "handle_signal" /\ last.fetch = "err" /\ last.ret = "Ok"
    /\ IsSome(pending_notification)
    /\ Unwrap(pending_notification).album_art = None
    /\ IsSome(Unwrap(pending_notification).metadata.art_url)

\* C10: whenever handle_pending finds a due pending notification, no
\* notification is pending and the pending command list is empty when it
\* returns, whatever became of the outbound call.
C10_IdleAfterDue ==
    (last.op = "handle_pending" /\ last.path = "due") =>
        (pending_notification = None /\ pending_commands = << >>)

\* The Notify calls among the notifications handed to the notifier
NotifyCalls(log) == Cardinality({i \in DOMAIN log : IsSome(log[i].call)})

\* Notifications pending or handed to the notifier so far
Notifications == Len(flushed) + (IF IsSome(pending_notification) THEN 1 ELSE 0)

\* A notification handed to the notifier is the scenario sender's, carries
\* the metadata md, and made a Notify call rendered from md unless both
\* rendered strings are blank
FlushedFrom(e, md) ==
    LET subject == format_metadata(configuration, configuration.subject_format, md)
        body    == format_metadata(configuration, configuration.body_format, md)
    IN /\ e.sender = ScriptSender
       /\ e.metadata = md
       /\ IsSome(e.call) <=> ~(Blank(subject) /\ Blank(body))
       /\ IsSome(e.call) =>
              /\ Unwrap(e.call).params[4] = subject
              /\ Unwrap(e.call).params[5] = body

\* The pending notification is the scenario sender's, carries md, was
\* touched by the latest signal, and a poll hands it over once it is due
PendingFrom(md) ==
    /\ Unwrap(pending_notification).sender = ScriptSender
    /\ Unwrap(pending_notification).metadata = md
    /\ Unwrap(pending_notification).last_touched >= sig_at
    /\ Elapsed > NOTIFICATION_DELAY =>
           \A send_ok \in BOOLEAN, fails \in Fails :
               Len(handle_pending(Self, now, send_ok, fails).sent) = 1

\* C2 (as stated): after two metadata-only changes of one sender less than
\* 250 ms apart and the flush, exactly one Notify call was made.
C2_ExactlyOneNotifyCall ==
    (step = 2 /\ pending_notification = None) => NotifyCalls(flushed) = 1

\* C2 (amended): two metadata-only changes of one sender less than 250 ms
\* apart, starting with nothing pending and with no other signal, give
\* exactly one notification: it is pending or was handed to the notifier, it
\* is handed over only more than 250 ms after the second change, it carries
\* the second change's metadata, and it makes one Notify call rendered from
\* that metadata unless subject and body both render blank.
C2_OneNotificationForTwoChanges ==
    step = 2 =>
        LET md == Unwrap(seen[ScriptSender])
        IN /\ Notifications = 1
           /\ IsSome(pending_notification) => PendingFrom(md)
           /\ \A i \in DOMAIN flushed :
                  /\ FlushedFrom(flushed[i], md)
                  /\ now - sig_at > NOTIFICATION_DELAY

\* Both changes were handled and the one notification made its Notify call.
C2_Witness ==
    /\ step = 2 /\ pending_notification = None
    /\ Len(flushed) = 1 /\ NotifyCalls(flushed) = 1
    /\ flushed[1].metadata.title = Some(<<"c">>)

\* C4 (as stated): metadata M, Playing, a flush, Paused, Playing again and
\* the second flush make two Notify calls in total.
C4_TwoNotifyCalls ==
    (step = 4 /\ pending_notification = None) => NotifyCalls(flushed) = 2

\* C4 (amended): Playing re-arms the notification with unchanged metadata:
\* after metadata M, Playing, a flush of M, Paused (which leaves nothing
\* pending) and Playing again, a second notification of M is pending, and
\* it is handed to the notifier once more than 250 ms have passed; each of
\* the two makes one Notify call unless M renders a blank subject and body.
C4_PlayingRearms ==
    /\ step = 3 => (pending_notification = None /\ Len(flushed) = 1)
    /\ step = 4 =>
        LET md == Unwrap(seen[ScriptSender])
        IN /\ Notifications = 2
           /\ IsSome(pending_notification) => PendingFrom(md)
           /\ \A i \in DOMAIN flushed : FlushedFrom(flushed[i], md)
           /\ Len(flushed) = 2 => now - sig_at > NOTIFICATION_DELAY

\* The scenario ran to its end and M was notified twice.
C4_Witness ==
    /\ step = 4 /\ pending_notification = None
    /\ Len(flushed) = 2 /\ NotifyCalls(flushed) = 2
    /\ flushed[1].metadata = flushed[2].metadata

\* A Playing change of a sender other than the one whose notification is
\* pending, handled before that notification's window has elapsed
\* The signals that decode to a change with the status Playing, and to one
\* with Paused or Stopped
PlayingSignals ==
    {message \in Signals : Decoded(message) /\ Change(message).status = Some("Playing")}

QuietingSignals ==
    {message \in Signals :
        Decoded(message) /\ Change(message).status \in {Some("Paused"), Some("Stopped")}}

PlayingOfOther(message) ==
    /\ Decoded(message)
    /\ Change(message).status = Some("Playing")
    /\ IsSome(pending_notification)
    /\ Owner # message.sender
    /\ Elapsed <= NOTIFICATION_DELAY

\* After handle_signal answered r, the message's sender owns the pending
\* notification, which carries its cached metadata; nothing is handed over
\* until its window has elapsed, and then it is this notification
TakenOver(message, r) ==
    /\ IsSome(r.self.pending_notification)
    /\ LET p == Unwrap(r.self.pending_notification)
       IN /\ Some(p.sender) = message.sender
          /\ Some(p.metadata) = r.self.metadata[p.sender]
          /\ p.last_touched >= now
          /\ \A send_ok \in BOOLEAN :
                /\ handle_pending(r.self, p.last_touched + NOTIFICATION_DELAY,
                                  send_ok, [i \in {} |-> TRUE]).sent = << >>
                /\ LET sent == handle_pending(r.self, p.last_touched + NOTIFICATION_DELAY + 1,
                                              send_ok, [i \in 1..Len(r.self.pending_commands) |-> FALSE]).sent
                   IN /\ Len(sent) = 1
                      /\ sent[1].sender = p.sender
                      /\ sent[1].metadata = p.metadata

\* C5 (as stated): a Playing change of sender B handled while A's
\* notification is pending and its window has not elapsed discards A's
\* notification and replaces it by B's, the only one flushed afterwards.
C5_PlayingReplacesPending ==
    \A message \in PlayingSignals, fetch_ok \in BOOLEAN, took \in FetchTimes :
        PlayingOfOther(message) =>
            TakenOver(message, handle_signal(Self, message, now, fetch_ok, now + took))

\* C5 (amended): the same, when B's metadata is known: the change carries
\* metadata or B has a cache entry.
C5_PlayingWithMetadataReplacesPending ==
    \A message \in PlayingSignals, fetch_ok \in BOOLEAN, took \in FetchTimes :
        (/\ PlayingOfOther(message)
         /\ \/ IsSome(Change(message).metadata)
            \/ IsSome(metadata[Unwrap(message.sender)])) =>
            TakenOver(message, handle_signal(Self, message, now, fetch_ok, now + took))

\* A's notification was pending when B's signal came, within A's window, and
\* B's is pending now.
C5_Witness ==
    /\ last.op = "handle_signal" /\ last.path = "armed"
    /\ last.was = Some("A")
    /\ now <= NOTIFICATION_DELAY
    /\ Owner = Some("B")

\* The latest clock at which a notification can be armed and still become
\* due, after a loop iteration, before the clock's bound
Horizon == MaxTime - 2 * NOTIFICATION_DELAY

\* C3: a pending notification that no later signal touches, replaces or
\* clears is eventually handed to the notifier, also when no further
\* message arrives: the loop comes back to handle_pending.
C3_PendingEventuallyFlushed ==
    (IsSome(pending_notification) /\ Unwrap(pending_notification).last_touched <= Horizon)
        ~> (pending_notification = None
            \/ Unwrap(pending_notification).last_touched > Horizon)

SomeFails(fails) == \E i \in DOMAIN fails : fails[i]

\* C12 (as stated): in a flush in which a pending command fails, every
\* pending command is attempted, in order, handle_pending returns success,
\* and the notification was handed to the transport before.
C12_FailingCommandAfterTransport ==
    \A send_ok \in BOOLEAN, fails \in Fails :
        LET r == handle_pending(Self, now, send_ok, fails)
        IN (r.ran # << >> /\ SomeFails(fails)) =>
               /\ r.ran = pending_commands
               /\ r.ret = "Ok"
               /\ Len(r.sent) = 1
               /\ IsSome(r.sent[1].call)

\* C12 (amended): in a flush in which a pending command fails, every pending
\* command is attempted, in order, handle_pending returns success, and the
\* notification was handed to the notifier before, which handed its Notify
\* call to the transport unless subject and body both render blank.
C12_FailingCommandDoesNotStopFlush ==
    \A send_ok \in BOOLEAN, fails \in Fails :
        LET r == handle_pending(Self, now, send_ok, fails)
        IN (r.ran # << >> /\ SomeFails(fails)) =>
               /\ r.ran = pending_commands
               /\ r.ret = "Ok"
               /\ Len(r.sent) = 1
               /\ IsSome(r.sent[1].call)
                  \/ (Blank(format_metadata(configuration, configuration.subject_format,
                                            r.sent[1].metadata))
                      /\ Blank(format_metadata(configuration, configuration.body_format,
                                               r.sent[1].metadata)))

\* A flush made its Notify call and went through both pending commands.
C12_Witness ==
    /\ last.op = "handle_pending" /\ last.ret = "Ok"
    /\ Len(last.sent) = 1 /\ IsSome(last.sent[1].call)
    /\ Len(last.ran) = 2

\* C13: a signal without a sender is answered with an error and leaves the
\* sender cache, the pending notification and the pending command list as
\* they were.
C13_NoSenderIsAnError ==
    \A message \in Signals, fetch_ok \in BOOLEAN, took \in FetchTimes :
        ~IsSome(message.sender) =>
            LET r == handle_signal(Self, message, now, fetch_ok, now + took)
            IN /\ r.ret = "Err"
               /\ r.fetch = "none"
               /\ r.self.metadata = metadata
               /\ r.self.pending_notification = pending_notification
               /\ r.self.pending_commands = pending_commands

\* A signal without a sender was answered with an error after a flush had
\* emptied the command list, with a player's metadata cached.
C13_Witness ==
    /\ last.op = "handle_signal" /\ last.path = "no_sender" /\ last.ret = "Err"
    /\ configuration.commands # << >> /\ pending_commands = << >>
    /\ \E x \in Senders : IsSome(metadata[x])

\* C14: no error returned by handle_pending, next_signal or handle_signal
\* ends the event loop: whatever a call returns, the loop goes on to the
\* next position of its cycle (handle_pending, next_signal, handle_signal
\* when a signal was received, sleep), so that handle_pending and
\* next_signal are called again.
C14_ErrorsDoNotStopLoop ==
    [][pc' # pc =>
          /\ last'.ret = "Err" => (pc # "sleep" => last'.op = pc)
          /\ pc = "handle_pending" => pc' = "next_signal"
          /\ pc = "next_signal" =>
                 pc' = IF last'.ret = "Err" THEN "sleep" ELSE "handle_signal"
          /\ pc = "handle_signal" => pc' = "sleep"
          /\ pc = "sleep" => pc' = "handle_pending"]_vars

\* next_signal returned an error, and the loop has slept and is about to
\* call handle_pending again.
C14_Witness ==
    /\ last.op = "next_signal" /\ last.ret = "Err"
    /\ pc = "handle_pending"
    /\ now > 0

\* No command of the run fails
NoFails == [i \in 1..Len(pending_commands) |-> FALSE]

\* C15: every call send_notification hands to the transport is a Notify call
\* to org.freedesktop.Notifications with the arguments, in order: app name
\* "mpris-notifier", replaces-id 0, empty icon, rendered subject, rendered
\* body, no actions, hints, timeout -1; the hints hold
\* x-canonical-private-synchronous with the app name, image-data exactly
\* when the notification carries album art (that image), and no other key.
C15_NotifyCallShape ==
    \A send_ok \in BOOLEAN :
        LET r == handle_pending(Self, now, send_ok, NoFails)
        IN \A i \in DOMAIN r.sent :
            IsSome(r.sent[i].call) =>
                LET call  == Unwrap(r.sent[i].call)
                    hints == call.params[7]
                IN /\ call.member = "Notify"
                   /\ call.destination = "org.freedesktop.Notifications"
                   /\ call.interface = "org.freedesktop.Notifications"
                   /\ call.object = "/org/freedesktop/Notifications"
                   /\ Len(call.params) = 8
                   /\ call.params[1] = "mpris-notifier"
                   /\ call.params[2] = 0
                   /\ call.params[3] = << >>
                   /\ call.params[4] = format_metadata(configuration,
                                           configuration.subject_format, r.sent[i].metadata)
                   /\ call.params[5] = format_metadata(configuration,
                                           configuration.body_format, r.sent[i].metadata)
                   /\ call.params[6] = << >>
                   /\ call.params[8] = -1
                   /\ "x-canonical-private-synchronous" \in DOMAIN hints
                   /\ hints["x-canonical-private-synchronous"].case = "CaseString"
                   /\ hints["x-canonical-private-synchronous"].string = "mpris-notifier"
                   /\ DOMAIN hints \subseteq {"x-canonical-private-synchronous", "image-data"}
                   /\ "image-data" \in DOMAIN hints <=> IsSome(r.sent[i].album_art)
                   /\ IsSome(r.sent[i].album_art) =>
                          /\ hints["image-data"].case = "CaseNotificationImage"
                          /\ hints["image-data"].image = r.sent[i].album_art

\* A notification with album art made its Notify call.
C15_Witness ==
    /\ last.op = "handle_pending" /\ Len(last.sent) = 1
    /\ IsSome(last.sent[1].call)
    /\ IsSome(last.sent[1].album_art)
    /\ "image-data" \in DOMAIN Unwrap(last.sent[1].call).params[7]


-----------------------------------------------------------------------------
(* Rendering *)

\* An absent string is the empty string
OrEmpty(o) == IF o = None THEN << >> ELSE o[1]

\* The entries of a list with the separator between them
RECURSIVE Joined(_, _)
Joined(list, sep) ==
    IF list = << >> THEN << >>
    ELSE IF Len(list) = 1 THEN list[1]
    ELSE Joined(SubSeq(list, 1, Len(list) - 1), sep) \o sep \o list[Len(list)]

\* A number in decimal digits
RECURSIVE Decimal(_)
Decimal(n) ==
    LET d == <<"0","1","2","3","4","5","6","7","8","9">>[(n % 10) + 1]
    IN  IF n < 10 THEN <<d>> ELSE Decimal(n \div 10) \o <<d>>

\* The recognized tokens and what each stands for
TokenValues(md, sep) ==
    (<<"{","a","l","b","u","m","}">> :> OrEmpty(md.album))
    @@ (<<"{","a","l","b","u","m","_","a","r","t","i","s","t","s","}">> :> Joined(OrEmpty(md.album_artists), sep))
    @@ (<<"{","a","l","b","u","m","_","a","r","t","i","s","t","}">> :> Joined(OrEmpty(md.album_artists), sep))
    @@ (<<"{","a","r","t","i","s","t","s","}">> :> Joined(OrEmpty(md.artists), sep))
    @@ (<<"{","a","r","t","i","s","t","}">> :> Joined(OrEmpty(md.artists), sep))
    @@ (<<"{","t","i","t","l","e","}">> :> OrEmpty(md.title))
    @@ (<<"{","t","r","a","c","k","}">> :> OrEmpty(md.title))
    @@ (<<"{","t","r","a","c","k","_","n","u","m","b","e","r","}">> :> IF md.track_number = None THEN <<"1">> ELSE Decimal(md.track_number[1]))

\* A token rendered: its value if it is recognized, itself otherwise
TokenValue(tok, md, sep) ==
    IF tok \in DOMAIN TokenValues(md, sep) THEN TokenValues(md, sep)[tok] ELSE tok

\* Every occurrence of a recognized token replaced, wherever it stands
RECURSIVE Substituted(_, _, _)
Substituted(s, md, sep) ==
    IF s = << >> THEN << >>
    ELSE LET here == {tok \in DOMAIN TokenValues(md, sep) :
                         /\ Len(tok) <= Len(s)
                         /\ SubSeq(s, 1, Len(tok)) = tok}
         IN  IF here # {}
             THEN LET tok == CHOOSE tok \in here : TRUE
                  IN  TokenValues(md, sep)[tok]
                      \o Substituted(SubSeq(s, Len(tok) + 1, Len(s)), md, sep)
             ELSE <<s[1]>> \o Substituted(Tail(s), md, sep)

\* Where the first s[i] = c is, 0 if nowhere
First(s, c) ==
    IF \E i \in 1..Len(s) : s[i] = c
    THEN CHOOSE i \in 1..Len(s) : s[i] = c /\ \A k \in 1..(i - 1) : s[k] # c
    ELSE 0

\* A stretch of template that ends at its only closing brace: its token runs
\* from its first opening brace to the end and has something in the braces
Stretch(c, md, sep) ==
    LET open == First(c, "{")
    IN  IF open > 0 /\ open < Len(c) - 1
        THEN SubSeq(c, 1, open - 1) \o TokenValue(SubSeq(c, open, Len(c)), md, sep)
        ELSE c

\* The template cut after each closing brace, each stretch rendered
RECURSIVE Stretches(_, _, _)
Stretches(s, md, sep) ==
    LET close == First(s, "}")
    IN  IF close = 0 THEN s
        ELSE Stretch(SubSeq(s, 1, close), md, sep)
             \o Stretches(SubSeq(s, close + 1, Len(s)), md, sep)

\* C16 (as stated): rendering replaces each recognized token of the template
\* by its value and leaves every other brace-delimited token and all other
\* text as it is, wherever the recognized token stands in the template.
C16_EveryRecognizedTokenReplaced ==
    last.op = "format_metadata" =>
        last.ret = Substituted(last.fmt, last.md, configuration.join_string)

\* C16 (amended): a token is the text from an opening brace to the next
\* closing brace with at least one character between them, found from the
\* left; a token that is one of the recognized ones is replaced by its value
\* (absent string or list: empty, lists joined by the join string, absent
\* track number: 1), every other token and all text outside tokens is kept.
C16_TokensSubstituted ==
    last.op = "format_metadata" =>
        last.ret = Stretches(last.fmt, last.md, configuration.join_string)

\* A recognized token after a stray opening brace is part of a longer token
\* and is kept as written; a list of two entries is joined elsewhere
C16_Witness ==
    /\ last.op = "format_metadata"
    /\ last.fmt = <<"{">> \o <<"{","a","r","t","i","s","t","s","}">>
    /\ last.md.artists # None
    /\ Len(last.md.artists[1]) = 2
    /\ last.ret = last.fmt


-----------------------------------------------------------------------------
(* Whose notification is pending *)

\* A change that carries metadata and neither Paused nor Stopped, from a
\* sender other than the one whose notification is pending
MetadataOfOther(message) ==
    /\ Decoded(message)
    /\ IsSome(Change(message).metadata)
    /\ Change(message).status \notin {Some("Paused"), Some("Stopped")}
    /\ IsSome(pending_notification)
    /\ Owner # message.sender

\* C17: when a change with metadata comes from sender S while the pending
\* notification is another sender's, what was being built is wiped out and a
\* notification of S is started: after handle_signal a notification is
\* pending, its sender is S and its metadata is the metadata just received.
C17_MetadataOfOtherSenderStartsAnew ==
    \A message \in Signals, fetch_ok \in BOOLEAN, took \in FetchTimes :
        MetadataOfOther(message) =>
            LET r == handle_signal(Self, message, now, fetch_ok, now + took)
            IN  /\ IsSome(r.self.pending_notification)
                /\ Some(Unwrap(r.self.pending_notification).sender) = message.sender
                /\ Some(Unwrap(r.self.pending_notification).metadata) = Change(message).metadata

\* The image made of the art URL of a metadata record, none without a URL
ImageOf(md) == IF IsSome(md.art_url) THEN Some(NotificationImage(Unwrap(md.art_url))) ELSE None

\* C18: the album art step adds to the pending notification the image of the
\* art URL of the metadata that notification carries and changes neither its
\* sender nor its metadata; every notification handed over at a flush has
\* the metadata of its sender's cache entry and, if any, the image of that
\* metadata's art URL.
C18_NotificationOfOnePlayer ==
    /\ \A message \in Signals, took \in FetchTimes :
          LET before == handle_signal(Self, message, now, FALSE, now + took)
              after  == handle_signal(Self, message, now, TRUE, now + took)
          IN  after.fetch = "ok" =>
                 LET p == Unwrap(before.self.pending_notification)
                     q == Unwrap(after.self.pending_notification)
                 IN  /\ q.sender = p.sender
                     /\ q.metadata = p.metadata
                     /\ IsSome(q.album_art)
                     /\ q.album_art = ImageOf(p.metadata)
    /\ \A i \in DOMAIN last.sent :
          /\ Some(last.sent[i].metadata) = metadata[last.sent[i].sender]
          /\ IsSome(last.sent[i].album_art) =>
                 last.sent[i].album_art = ImageOf(last.sent[i].metadata)

\* A Paused or Stopped change of a sender whose metadata is known
QuietingOf(message) ==
    /\ message \in QuietingSignals
    /\ \/ IsSome(metadata[Unwrap(message.sender)])
       \/ IsSome(Change(message).metadata)

\* C19: after handle_signal handled a Paused or Stopped change of a sender
\* whose metadata is known, no notification is pending, whoever owned the one
\* pending before and whether or not the change carried metadata; no art is
\* fetched and no later handle_pending hands anything over.
C19_PausedOrStoppedCancels ==
    \A message \in {m \in Signals : QuietingOf(m)} :
            LET r == handle_signal(Self, message, now, TRUE, now)
            IN  /\ r.ret = "Ok"
                /\ r.fetch = "none"
                /\ r.self.pending_notification = None
                /\ \A t \in {now, now + NOTIFICATION_DELAY + 1}, send_ok \in BOOLEAN :
                      handle_pending(r.self, t, send_ok,
                                     [i \in 1..Len(r.self.pending_commands) |-> FALSE]).sent = << >>

\* A's notification was pending when a signal was handled and none is
\* pending after it, both players' metadata being cached
C19_Witness ==
    /\ last.op = "handle_signal" /\ last.path = "idle"
    /\ last.was = Some("A")
    /\ pending_notification = None
    /\ IsSome(metadata["A"]) /\ IsSome(metadata["B"])

\* A Playing change of a sender whose metadata is known
PlayingOfKnown(message) ==
    /\ message \in PlayingSignals
    /\ \/ IsSome(metadata[Unwrap(message.sender)])
       \/ IsSome(Change(message).metadata)

\* C20: after handle_signal handled a Playing change of sender S whose
\* metadata is known, a notification is pending, its sender is S, its
\* metadata is S's cache entry, it was touched no earlier than the call
\* began, and it has an image only if this call fetched one, the image of
\* that metadata's art URL.
C20_PlayingArms ==
    \A message \in {m \in Signals : PlayingOfKnown(m)},
       fetch_ok \in BOOLEAN, took \in FetchTimes :
            LET r == handle_signal(Self, message, now, fetch_ok, now + took)
            IN  /\ IsSome(r.self.pending_notification)
                /\ LET p == Unwrap(r.self.pending_notification)
                   IN  /\ Some(p.sender) = message.sender
                       /\ Some(p.metadata) = r.self.metadata[p.sender]
                       /\ p.last_touched >= now
                       /\ IsSome(p.album_art) =>
                              /\ r.fetch = "ok"
                              /\ p.album_art = ImageOf(p.metadata)

\* B's notification was pending when A's signal was handled; A's is pending
\* after it, with the image fetched in that call
C20_Witness ==
    /\ last.op = "handle_signal" /\ last.path = "armed"
    /\ last.was = Some("B")
    /\ Owner = Some("A")
    /\ last.fetch = "ok"
    /\ IsSome(Unwrap(pending_notification).album_art)


-----------------------------------------------------------------------------
(* Changes that decide nothing *)

\* The signals that decode to a change without metadata
ChangesWithoutMetadata ==
    {message \in Signals : Decoded(message) /\ ~IsSome(Change(message).metadata)}

\* C21: a decoded change without metadata from a sender that has no cache
\* entry is answered with success and, whatever its status, leaves the
\* pending notification (of any sender, or none) and the sender cache exactly
\* as they were; no album art is fetched.
C21_NoMetadataDecidesNothing ==
    \A message \in ChangesWithoutMetadata :
        ~IsSome(metadata[Unwrap(message.sender)]) =>
            LET r == handle_signal(Self, message, now, TRUE, now)
            IN  /\ r.ret = "Ok"
                /\ r.fetch = "none"
                /\ r.self.pending_notification = pending_notification
                /\ r.self.metadata = metadata

\* A change of a sender without metadata was handled while the notification
\* of the other sender was pending, and it still is
C21_Witness ==
    /\ last.op = "handle_signal" /\ last.path = "no_metadata"
    /\ IsSome(pending_notification)
    /\ last.was = Owner
    /\ \E x \in Senders : ~IsSome(metadata[x])


-----------------------------------------------------------------------------
(* Commands on every signal *)

\* C22: after any signal with a sender was handled, whatever its status, the
\* configured commands are eventually executed by the polling alone, no
\* further signal being needed.
C22_CommandsRunAfterEverySignal ==
    [](( /\ last.op = "handle_signal"
         /\ step = MaxSignals
         /\ build_commands(configuration.commands) # << >>)
       => <>(last.op = "handle_pending" /\ last.ran # << >>))


-----------------------------------------------------------------------------
(* A status that is no status *)

\* The signals of the player interface, with a sender, whose PlaybackStatus
\* is there and is neither "Playing", "Paused" nor "Stopped"
UnrecognizedStatusSignals ==
    {message \in SignalsWithSender :
        /\ message.body.interface_name = Some(MPRIS_INTERFACE)
        /\ IsSome(message.body.changed)
        /\ IsSome(Unwrap(message.body.changed).PlaybackStatus)
        /\ Unwrap(Unwrap(message.body.changed).PlaybackStatus)
               \notin {StrV(Playing), StrV(Paused), StrV(Stopped)}}

\* The same message with no PlaybackStatus in it
WithoutStatus(message) ==
    [message EXCEPT !.body.changed = Some([Unwrap(@) EXCEPT !.PlaybackStatus = None])]

\* C23: a PlaybackStatus that is none of the three words, or no string,
\* decodes, without failing the decode, to an absent status; handling the
\* signal does exactly what handling it without any PlaybackStatus does: a
\* pending notification is not cleared and does not pass to the signal's
\* sender, and without metadata in the change none is created.
C23_UnrecognizedStatusIsAbsent ==
    \A message \in UnrecognizedStatusSignals :
        /\ Decoded(message)
        /\ Change(message).status = None
        /\ \A fetch_ok \in BOOLEAN,
              took \in IF handle_signal(Self, message, now, TRUE, now).fetch = "none"
                       THEN {0} ELSE FetchTimes :
              LET r == handle_signal(Self, message, now, fetch_ok, now + took)
              IN  /\ r = handle_signal(Self, WithoutStatus(message), now, fetch_ok, now + took)
                  /\ r.ret = "Ok"
                  /\ IsSome(pending_notification) =>
                         /\ IsSome(r.self.pending_notification)
                         /\ Some(Unwrap(r.self.pending_notification).sender) = Owner
                  /\ (~IsSome(pending_notification) /\ ~IsSome(Change(message).metadata)) =>
                         ~IsSome(r.self.pending_notification)

\* A signal with the status "?" of a sender whose metadata is cached was
\* handled while the other sender's notification was pending, and it still
\* is
C23_Witness ==
    /\ last.op = "handle_signal" /\ last.path = "armed"
    /\ IsSome(signal)
    /\ Unwrap(Unwrap(signal).body.changed).PlaybackStatus = Some(StrV(<<"?">>))
    /\ IsSome(metadata[Unwrap(Unwrap(signal).sender)])
    /\ IsSome(pending_notification)
    /\ Owner # Unwrap(signal).sender
    /\ last.was = Owner

\* The signals that decode to a change with neither a status nor metadata
EmptyChanges ==
    {message \in ChangesWithoutMetadata : ~IsSome(Change(message).status)}

\* C27 (as stated): a decoded change with neither a status nor metadata
\* leaves the pending notification as it was: sender, metadata, image and
\* last_touched.
C27_EmptyChangeLeavesPending ==
    \A message \in EmptyChanges, fetch_ok \in BOOLEAN, took \in FetchTimes :
        handle_signal(Self, message, now, fetch_ok, now + took).self.pending_notification
            = pending_notification

\* C27 (amended): such a change leaves the pending notification as it was
\* unless album art is fetched for it and the fetch succeeds, which takes
\* album art to be enabled, a notification to be pending and the sender's
\* cache entry to have an art URL; the flush of the notification is then not
\* postponed. When the fetch succeeds the notification keeps its sender and
\* gets the sender's cache entry, the image and a new last_touched.
C27_EmptyChangeWithoutArtLeavesPending ==
    \A message \in EmptyChanges, fetch_ok \in BOOLEAN, took \in FetchTimes :
        LET r == handle_signal(Self, message, now, fetch_ok, now + took)
            x == Unwrap(message.sender)
        IN  /\ r.ret = "Ok"
            /\ r.fetch # "ok" => r.self.pending_notification = pending_notification
            /\ r.fetch = "ok" =>
                  /\ configuration.enable_album_art
                  /\ IsSome(pending_notification)
                  /\ IsSome(metadata[x]) /\ IsSome(Unwrap(metadata[x]).art_url)
                  /\ r.self.pending_notification =
                        Some([sender       |-> Unwrap(pending_notification).sender,
                              metadata     |-> Unwrap(metadata[x]),
                              album_art    |-> ImageOf(Unwrap(metadata[x])),
                              last_touched |-> now + took])

\* A change with neither a status nor metadata was handled after time had
\* passed, the album art fetch made for it failed, and the pending
\* notification has the last_touched it had
C27_Witness ==
    /\ last.op = "handle_signal" /\ last.fetch = "err"
    /\ IsSome(signal)
    /\ Unwrap(Unwrap(signal).body.changed).PlaybackStatus = None
    /\ Unwrap(Unwrap(signal).body.changed).Metadata = None
    /\ IsSome(pending_notification)
    /\ Unwrap(pending_notification).last_touched < now


-----------------------------------------------------------------------------
(* One call for one notification *)

\* C24: when handle_pending takes a due notification for sending, it hands
\* it to the notifier once, at most one Notify call is made, and whether the
\* send succeeds, fails or is suppressed the pending slot is empty after it;
\* handle_pending calls that follow with no signal between them, at once or
\* later, hand nothing over and make no call.
C24_NoRetry ==
    \A send_ok \in BOOLEAN :
        LET r == handle_pending(Self, now, send_ok, NoFails)
        IN  r.path = "due" =>
               /\ Len(r.sent) = 1
               /\ NotifyCalls(r.sent) <= 1
               /\ r.self.pending_notification = None
               /\ \A t \in {now, now + LOOP_DELAY, now + NOTIFICATION_DELAY + 1},
                     again_ok \in BOOLEAN :
                     LET again == handle_pending(r.self, t, again_ok, NoFails)
                     IN  /\ again.sent = << >>
                         /\ again.ret = "Ok"
                         /\ again.self.pending_notification = None

\* A due notification was taken, its Notify call failed, and nothing is
\* pending
C24_Witness ==
    /\ last.op = "handle_pending" /\ last.path = "due" /\ last.ret = "Err"
    /\ NotifyCalls(last.sent) = 1
    /\ pending_notification = None


-----------------------------------------------------------------------------
(* Album art only where wanted *)

\* C25: with album art disabled no fetch is ever attempted, no pending
\* notification carries an image and no notification handed over has one, so
\* no Notify call has an image-data hint; and whatever the configuration, a
\* signal of a sender whose cache entry (after the signal's metadata was
\* stored) is missing or has no art URL triggers no fetch and attaches no
\* image: a pending notification with an image is the one that was pending,
\* untouched.
C25_NoArtUnlessEnabledAndUrl ==
    /\ ~configuration.enable_album_art =>
          /\ last.fetch = "none"
          /\ IsSome(pending_notification) =>
                 Unwrap(pending_notification).album_art = None
          /\ \A i \in DOMAIN last.sent :
                /\ last.sent[i].album_art = None
                /\ IsSome(last.sent[i].call) =>
                       "image-data" \notin DOMAIN Unwrap(last.sent[i].call).params[7]
    /\ \A message \in SignalsWithSender :
          LET r == handle_signal(Self, message, now, TRUE, now)
              entry == r.self.metadata[Unwrap(message.sender)]
          IN  (~IsSome(entry) \/ ~IsSome(Unwrap(entry).art_url)) =>
                 /\ r.fetch = "none"
                 /\ (/\ IsSome(r.self.pending_notification)
                     /\ IsSome(Unwrap(r.self.pending_notification).album_art)) =>
                        r.self.pending_notification = pending_notification

\* With album art disabled, a notification whose metadata has an art URL was
\* handed over without an image and its Notify call was made
C25_Witness ==
    /\ ~configuration.enable_album_art
    /\ last.op = "handle_pending" /\ Len(last.sent) = 1
    /\ IsSome(last.sent[1].metadata.art_url)
    /\ last.sent[1].album_art = None
    /\ IsSome(last.sent[1].call)


-----------------------------------------------------------------------------
(* The commands of a flush *)

\* The configured argument vectors that are not empty, in their order, each
\* as a program and its arguments
ConfiguredCommands ==
    LET kept == SelectSeq(configuration.commands, LAMBDA args : Len(args) > 0)
    IN  [i \in 1..Len(kept) |->
            [program |-> kept[i][1], args |-> SubSeq(kept[i], 2, Len(kept[i]))]]

\* C26: at every flush whose outbound call does not fail the commands
\* executed are the configured ones without the empty argument vectors, each
\* once and in the configured order, in a call that has handed the
\* notification to the notifier; the list is empty after it, and a call that
\* hands nothing over or whose send fails executes nothing. While a
\* notification is pending the list is the configured one, neither an older
\* nor a doubled one.
C26_CommandsOfAFlush ==
    /\ (last.op = "handle_pending" /\ last.path = "due" /\ last.ret = "Ok") =>
          /\ last.ran = ConfiguredCommands
          /\ Len(last.sent) = 1
          /\ pending_commands = << >>
    /\ last.ran # << >> =>
          (last.op = "handle_pending" /\ last.ret = "Ok" /\ Len(last.sent) = 1)
    /\ IsSome(pending_notification) => pending_commands = ConfiguredCommands
    /\ \A send_ok \in BOOLEAN, fails \in Fails :
          LET r == handle_pending(Self, now, send_ok, fails)
          IN  (r.path = "due" /\ r.ret = "Ok") =>
                 /\ r.ran = ConfiguredCommands
                 /\ r.self.pending_commands = << >>

\* A flush ran the two commands configured among three argument vectors,
\* one of them empty, the second with its argument
C26_Witness ==
    /\ last.op = "handle_pending" /\ last.path = "due" /\ last.ret = "Ok"
    /\ Len(configuration.commands) = 3
    /\ last.ran = ConfiguredCommands
    /\ Len(last.ran) = 2 /\ last.ran[2].args # << >>


-----------------------------------------------------------------------------
(* A blank notification *)

\* Do the subject and the body of the pending notification both come out
\* blank, tokens replaced as the templates say
RendersBlank ==
    LET md == Unwrap(pending_notification).metadata
    IN  /\ Blank(Stretches(configuration.subject_format, md, configuration.join_string))
        /\ Blank(Stretches(configuration.body_format, md, configuration.join_string))

\* C28: when the pending notification is due and its subject and body both
\* render blank, handle_pending makes no Notify call, executes the pending
\* commands in their order whether or not some of them fail, leaves neither
\* a pending notification nor a pending command, and returns success.
C28_BlankStillRunsCommands ==
    (IsSome(pending_notification) /\ Elapsed > NOTIFICATION_DELAY /\ RendersBlank) =>
        \A send_ok \in BOOLEAN, fails \in Fails :
            LET r == handle_pending(Self, now, send_ok, fails)
            IN  /\ r.ret = "Ok"
                /\ Len(r.sent) = 1 /\ r.sent[1].call = None
                /\ r.ran = pending_commands
                /\ r.self.pending_notification = None
                /\ r.self.pending_commands = << >>

\* A due notification was handed over, no Notify call was made for it, and
\* the commands were run all the same; nothing is left pending
C28_Witness ==
    /\ last.op = "handle_pending" /\ last.path = "due" /\ last.ret = "Ok"
    /\ NotifyCalls(last.sent) = 0
    /\ Len(last.ran) = 2
    /\ pending_notification = None /\ pending_commands = << >>

====
